---- MODULE Spec2Model ----
(***************************************************************************)
(* Model of nalco_scraper.py: the IE07 extraction chain, the event         *)
(* de-duplication, the forward-filled daily sheet and the spreadsheet      *)
(* write of one run of main().                                             *)
(*                                                                         *)
(* Conventions.                                                            *)
(*  - A calendar day is a positive integer; NoDate stands for None.        *)
(*  - DateType records the Python type of an event's "Circular Date":      *)
(*    "date" (datetime.date, as parse_date_from_text returns), "datetime"  *)
(*    (pandas Timestamp, as read back from a sheet or made by              *)
(*    pd.to_datetime) or "none".  A date and a datetime of the same day    *)
(*    are different dictionary keys in Python.                             *)
(*  - A "Source PDF" name is represented by its rank in lexicographic      *)
(*    order; rank 0 is the empty name.                                     *)
(*  - A "Basic Price" is kept in thousandths (268250 is 268.250); NoPrice  *)
(*    stands for None.                                                     *)
(*  - DataFrame.sort_values uses an unstable sort: the order of rows with  *)
(*    equal sort keys is a nondeterministic choice.                        *)
(***************************************************************************)
EXTENDS Integers, Sequences, FiniteSets, TLC

VARIABLES pc, mode, runs, file, backups, prior, pdfs_dir,
          events, until, daily, latest_link,
          pdf, parsed, candidates, store

vars == <<pc, mode, runs, file, backups, prior, pdfs_dir,
          events, until, daily, latest_link,
          pdf, parsed, candidates, store>>

(* ----------------------------- bounds ---------------------------------- *)
MaxDay == 4
MaxEvents == 3

NoDate == 0
NoPrice == 0 - 1
NoLink == 0

Days == 1..MaxDay
Untils == 1..MaxDay
ProductCodes == {"", "IE07"}

(* ----------------------------- events ---------------------------------- *)
\* The free-text fields of an event come in two flavours so that rows copied
\* from different events can be told apart field by field.
\* Flavour 3 is a row whose price cell is missing or not numeric: lines 220-223
\* and 264-267 leave its Basic Price None.
Payload(v) ==
    IF v = 1
    THEN [Description |-> "ALUMINIUM INGOT", BasicPrice |-> 268250]
    ELSE IF v = 2
    THEN [Description |-> "IE07 ALUMINIUM INGOT 270100", BasicPrice |-> 270100]
    ELSE [Description |-> "ALUMINIUM INGOT n/a", BasicPrice |-> NoPrice]

\* lines 225-232 and 269-276: the dictionary of one event
Event(v, code, cdate, dtype, link, src) ==
    [Description |-> Payload(v).Description,
     ProductCode |-> code,
     BasicPrice |-> Payload(v).BasicPrice,
     CircularDate |-> cdate,
     DateType |-> IF cdate = NoDate THEN "none" ELSE dtype,
     CircularLink |-> link,
     SourcePDF |-> src]

\* Event lists given to build_daily_sheet: parsed events (date) and events
\* loaded from a sheet (datetime), with and without a Circular Date.
EventPool ==
    { Event(v, code, cdate, IF v = 1 THEN "date" ELSE "datetime",
            IF v = 1 THEN "" ELSE "page/url", v) :
        v \in 1..2, code \in ProductCodes, cdate \in {NoDate} \cup Days }

RECURSIVE SeqsUpTo(_, _)
SeqsUpTo(S, n) ==
    IF n = 0 THEN {<<>>}
    ELSE LET shorter == SeqsUpTo(S, n - 1)
         IN shorter \cup { Append(s, x) : s \in {t \in shorter : Len(t) = n - 1}, x \in S }

RemoveAt(s, i) == SubSeq(s, 1, i - 1) \o SubSeq(s, i + 1, Len(s))

\* The subsequence of s at the indices in keep, in order.
KeepIdx(s, keep) ==
    LET f[i \in 0..Len(s)] ==
            IF i = 0 THEN <<>>
            ELSE IF i \in keep THEN Append(f[i - 1], s[i]) ELSE f[i - 1]
    IN f[Len(s)]

\* The least value of column by in a non-empty frame.
MinOf(s, by) == CHOOSE m \in {s[i][by] : i \in DOMAIN s} :
                    \A i \in DOMAIN s : m <= s[i][by]

MinDate(s) == MinOf(s, "CircularDate")

(* ------------------------- build_daily_sheet --------------------------- *)
\* lines 352-365: drop events without Circular Date, datetime -> date
normalized(evs) ==
    LET dated == KeepIdx(evs, {i \in DOMAIN evs : evs[i].CircularDate # NoDate})
    IN [i \in DOMAIN dated |->
            [Description |-> dated[i].Description,
             ProductCode |-> dated[i].ProductCode,
             BasicPrice |-> dated[i].BasicPrice,
             CircularDate |-> dated[i].CircularDate,
             CircularLink |-> dated[i].CircularLink]]

\* DataFrame.sort_values(by): every ascending order of the rows
RECURSIVE sort_values(_, _)
sort_values(s, by) ==
    IF s = <<>> THEN {<<>>}
    ELSE LET m == MinOf(s, by)
         IN UNION { { <<s[i]>> \o t : t \in sort_values(RemoveAt(s, i), by) } :
                      i \in {j \in DOMAIN s : s[j][by] = m} }

\* drop_duplicates(subset=["Circular Date", "Product Code"], keep="last")
drop_duplicates(s) ==
    KeepIdx(s, {i \in DOMAIN s :
                  \A j \in (i + 1)..Len(s) :
                      ~(s[j].CircularDate = s[i].CircularDate
                        /\ s[j].ProductCode = s[i].ProductCode)})

all_dates_open(start_date, end_date) ==
    [i \in 1..(end_date - start_date) |-> start_date + i - 1]

\* pd.date_range(start, end, freq="D"): both ends included
all_dates(start_date, end_date) ==
    [i \in 1..(end_date - start_date + 1) |-> start_date + i - 1]

RECURSIVE AdvanceStrict(_, _, _, _)
AdvanceStrict(ev_iter, ev_idx, current, d) ==
    IF ev_idx <= Len(ev_iter) /\ ev_iter[ev_idx].CircularDate < d
    THEN AdvanceStrict(ev_iter, ev_idx + 1, <<ev_iter[ev_idx]>>, d)
    ELSE <<ev_idx, current>>

\* lines 381-383: the while loop; current is <<>> for None, <<e>> otherwise
RECURSIVE Advance(_, _, _, _)
Advance(ev_iter, ev_idx, current, d) ==
    IF ev_idx <= Len(ev_iter) /\ ev_iter[ev_idx].CircularDate <= d
    THEN Advance(ev_iter, ev_idx + 1, <<ev_iter[ev_idx]>>, d)
    ELSE <<ev_idx, current>>

\* lines 379-395: one pass over all_dates from position k on
RECURSIVE ForwardFill(_, _, _, _, _)
ForwardFill(ev_iter, dates, k, ev_idx, current) ==
    IF k > Len(dates) THEN <<>>
    ELSE LET d == dates[k]
             a == Advance(ev_iter, ev_idx, current, d)
             row == IF a[2] # <<>>
                    THEN << [Date |-> d,
                             Description |-> a[2][1].Description,
                             ProductCode |-> a[2][1].ProductCode,
                             BasicPrice |-> a[2][1].BasicPrice,
                             CircularDate |-> a[2][1].CircularDate,
                             CircularLink |-> a[2][1].CircularLink] >>
                    ELSE <<>>
         IN row \o ForwardFill(ev_iter, dates, k + 1, a[1], a[2])

\* lines 348-397: the set of frames build_daily_sheet can return
build_daily_sheet(evs, until_date) ==
    IF evs = <<>> THEN {<<>>}
    ELSE LET n == normalized(evs)
         IN IF n = <<>> THEN {<<>>}
            ELSE { ForwardFill(drop_duplicates(evdf),
                               all_dates(MinDate(n), until_date), 1, 1, <<>>) :
                     evdf \in sort_values(n, "CircularDate") }

(* ------------- specification: build_daily_sheet on its own ------------- *)
Idle ==
    /\ mode = "none" /\ runs = 0 /\ file = [kind |-> "missing"]
    /\ backups = {} /\ prior = [kind |-> "missing"] /\ pdfs_dir = {}
    /\ latest_link = NoLink

InitBuild ==
    /\ Idle
    /\ pc = "input"
    /\ events \in SeqsUpTo(EventPool, MaxEvents)
    /\ until \in Untils
    /\ daily = <<>>
    /\ pdf = <<>> /\ parsed = <<>> /\ candidates = <<>> /\ store = <<>>

BuildDaily ==
    /\ pc = "input"
    /\ daily' \in build_daily_sheet(events, until)
    /\ pc' = "built"
    /\ UNCHANGED <<mode, runs, file, backups, prior, pdfs_dir, events, until,
                   latest_link, pdf, parsed, candidates, store>>

NextBuild == BuildDaily

SpecBuild == InitBuild /\ [][NextBuild]_vars

Dated(evs) == {i \in DOMAIN evs : evs[i].CircularDate # NoDate}

SameFields(r, e) ==
    /\ r.Description = e.Description
    /\ r.ProductCode = e.ProductCode
    /\ r.BasicPrice = e.BasicPrice
    /\ r.CircularDate = e.CircularDate
    /\ r.CircularLink = e.CircularLink

\* C1: forward fill. Every row of the daily sheet for day x carries the
\* Description, Product Code, Basic Price, Circular Date and Circular Link of an
\* event of the input whose Circular Date is the greatest one <= x, never of
\* a later event; Circular Date <= Date and Circular Date does not decrease
\* as Date increases.
C1_ForwardFill ==
    pc = "built" =>
      /\ \A i \in DOMAIN daily :
            \E j \in Dated(events) :
               /\ SameFields(daily[i], events[j])
               /\ events[j].CircularDate <= daily[i].Date
               /\ \A k \in Dated(events) :
                     events[k].CircularDate <= daily[i].Date
                        => events[k].CircularDate <= events[j].CircularDate
      /\ \A i, j \in DOMAIN daily :
            daily[i].Date <= daily[j].Date
               => daily[i].CircularDate <= daily[j].CircularDate

\* An event change inside the range, a forward-filled day, and an event dated
\* after the end date.
C1_Witness ==
    /\ pc = "built"
    /\ \E i, j \in DOMAIN daily :
          /\ daily[i].CircularDate < daily[i].Date
          /\ daily[j].CircularDate > daily[i].CircularDate
    /\ \E k \in Dated(events) : events[k].CircularDate > until

\* C2: density. For a list with at least one dated event and an end date not
\* before the earliest Circular Date, the daily sheet has exactly
\* (until - earliest) + 1 rows, the i-th row being day earliest + i - 1.
C2_Density ==
    (pc = "built" /\ Dated(events) # {}) =>
       LET first == MinDate(normalized(events))
       IN until >= first =>
            /\ Len(daily) = until - first + 1
            /\ \A i \in DOMAIN daily : daily[i].Date = first + i - 1

C2_Witness ==
    /\ pc = "built"
    /\ Len(daily) >= 3
    /\ Cardinality({events[k].CircularDate : k \in Dated(events)}) >= 2
    /\ \E k \in DOMAIN events : events[k].CircularDate = NoDate

(* ----------------------- extract_ie07_from_pdf ------------------------- *)
(* A PDF is [name, readable, pages].  A page is [tables, text]:            *)
(*  - tables: the rows of page.extract_tables(), in order.  A row is       *)
(*    "other" (no IE07 in the row text, or an empty row), "split" (the     *)
(*    joined row text contains "ie 07" but no single cell matches          *)
(*    ie\s*0?7, so row_to_event returns None) or "ie07" (a cell matches).  *)
(*  - text: page.extract_text().  It is "none" (no IE07), "spaced" (the    *)
(*    text without blanks contains ie07 but no line matches ie\s*0?7),     *)
(*    "wrapped" (only the whole-document regex IE\s*0?7 matches, as when   *)
(*    IE and 07 are separated by a line break) or "line" (a line matches). *)
(* A row or a text carries the fields the regexes would extract from it.   *)
(* A result records the heuristic and the page it came from.               *)
MaxPages == 2
MaxRows == 2

Links == {"", "page/url"}

RowOf(kind, v, code, cdate) == [kind |-> kind, v |-> v, code |-> code, cdate |-> cdate]
Row(kind) == RowOf(kind, 1, "", 1)
Text(kind) == RowOf(kind, 2, "IE07", 2)

RowPool == {Row("other"), Row("split"), Row("ie07")}
TextPool == {Text("none"), Text("spaced"), Text("wrapped"), Text("line")}
PagePool == [tables : SeqsUpTo(RowPool, MaxRows), text : TextPool]
PdfPool ==
    {[name |-> 1, readable |-> FALSE, pages |-> <<>>]} \cup
    {[name |-> 1, readable |-> TRUE, pages |-> ps] : ps \in SeqsUpTo(PagePool, MaxPages)}

\* lines 172-233: None (<<>>) when no cell holds IE07, else the event
row_to_event(row, pdf_path, circular_link) ==
    IF row.kind # "ie07" THEN <<>>
    ELSE <<Event(row.v, row.code, row.cdate, "date", circular_link, pdf_path)>>

\* lines 245-276: always a dictionary
heuristic_from_snippet(snippet, pdf_path, circular_link) ==
    <<Event(snippet.v, snippet.code, snippet.cdate, "date", circular_link, pdf_path)>>

\* lines 235-243
parse_line_around_text(page, pdf_path, circular_link) ==
    IF page.text.kind = "line"
    THEN heuristic_from_snippet(page.text, pdf_path, circular_link)
    ELSE <<>>

\* lines 141-150: the first row containing IE07 that row_to_event accepts
RECURSIVE ScanRows(_, _, _, _)
ScanRows(rows, i, pdf_path, circular_link) ==
    IF i > Len(rows) THEN <<>>
    ELSE IF rows[i].kind \in {"split", "ie07"}
            /\ row_to_event(rows[i], pdf_path, circular_link) # <<>>
         THEN row_to_event(rows[i], pdf_path, circular_link)
         ELSE ScanRows(rows, i + 1, pdf_path, circular_link)

Found(by, k, p) == [by |-> by, page |-> k, event |-> p[1]]
NotFound == [by |-> "none", page |-> 0]

\* All tables of all pages first, then the text of the pages.
RECURSIVE ScanTablesThenText(_, _, _, _, _)
ScanTablesThenText(pages, k, pass, pdf_path, circular_link) ==
    IF k > Len(pages)
    THEN IF pass = "tables" THEN ScanTablesThenText(pages, 1, "text", pdf_path, circular_link)
         ELSE NotFound
    ELSE LET t == ScanRows(pages[k].tables, 1, pdf_path, circular_link)
             l == IF pages[k].text.kind \in {"spaced", "line"}
                  THEN parse_line_around_text(pages[k], pdf_path, circular_link)
                  ELSE <<>>
         IN IF pass = "tables" /\ t # <<>> THEN Found("table", k, t)
            ELSE IF pass = "text" /\ l # <<>> THEN Found("line", k, l)
            ELSE ScanTablesThenText(pages, k + 1, pass, pdf_path, circular_link)

ScanPagesTablesFirst(pages, k, pdf_path, circular_link) ==
    ScanTablesThenText(pages, 1, "tables", pdf_path, circular_link)

\* lines 135-156: for each page, its tables and then its text
RECURSIVE ScanPages(_, _, _, _)
ScanPages(pages, k, pdf_path, circular_link) ==
    IF k > Len(pages) THEN NotFound
    ELSE LET t == ScanRows(pages[k].tables, 1, pdf_path, circular_link)
             l == IF pages[k].text.kind \in {"spaced", "line"}
                  THEN parse_line_around_text(pages[k], pdf_path, circular_link)
                  ELSE <<>>
         IN IF t # <<>> THEN Found("table", k, t)
            ELSE IF l # <<>> THEN Found("line", k, l)
            ELSE ScanPages(pages, k + 1, pdf_path, circular_link)

\* lines 158-165: regex over the text of the whole document
WholeDocument(pages, pdf_path, circular_link) ==
    LET hits == {k \in DOMAIN pages : pages[k].text.kind \in {"line", "wrapped"}}
    IN IF hits = {} THEN NotFound
       ELSE LET k == CHOOSE h \in hits : \A g \in hits : h <= g
            IN Found("whole", k, heuristic_from_snippet(pages[k].text, pdf_path, circular_link))

\* lines 122-170
extract_ie07_from_pdf(doc, circular_link) ==
    IF ~doc.readable THEN NotFound
    ELSE LET r == ScanPages(doc.pages, 1, doc.name, circular_link)
         IN IF r.by # "none" THEN r
            ELSE WholeDocument(doc.pages, doc.name, circular_link)

(* ----------- specification: extract_ie07_from_pdf on its own ----------- *)
InitExtract ==
    /\ Idle
    /\ pc = "input"
    /\ pdf \in PdfPool
    /\ parsed = NotFound
    /\ events = <<>> /\ until = 1 /\ daily = <<>>
    /\ candidates = <<>> /\ store = <<>>

Extract ==
    /\ pc = "input"
    /\ \E circular_link \in Links :
          parsed' = extract_ie07_from_pdf(pdf, circular_link)
    /\ pc' = "extracted"
    /\ UNCHANGED <<mode, runs, file, backups, prior, pdfs_dir, events, until,
                   daily, latest_link, pdf, candidates, store>>

NextExtract == Extract

SpecExtract == InitExtract /\ [][NextExtract]_vars

TableHit(page) == \E i \in DOMAIN page.tables : page.tables[i].kind = "ie07"
LineHit(page) == page.text.kind = "line"

\* C10 as stated: a result of the text-line heuristic means that no page of
\* the document has a table row with IE07.
C10_TableBeforeLineInDocument ==
    (pc = "extracted" /\ parsed.by = "line") =>
        \A k \in DOMAIN pdf.pages : ~TableHit(pdf.pages[k])

\* C10 amended: the heuristics are tried page by page.  A table result of
\* page k means no earlier page has a table or line hit; a text-line result
\* of page k means no table hit on pages 1..k and no line hit on an earlier
\* page; a whole-document result means no table or line hit on any page.
C10_PriorityPerPage ==
    pc = "extracted" =>
      /\ parsed.by = "table" =>
            /\ TableHit(pdf.pages[parsed.page])
            /\ \A k \in 1..(parsed.page - 1) :
                  ~TableHit(pdf.pages[k]) /\ ~LineHit(pdf.pages[k])
      /\ parsed.by = "line" =>
            /\ LineHit(pdf.pages[parsed.page])
            /\ \A k \in 1..parsed.page : ~TableHit(pdf.pages[k])
            /\ \A k \in 1..(parsed.page - 1) : ~LineHit(pdf.pages[k])
      /\ parsed.by = "whole" =>
            \A k \in DOMAIN pdf.pages :
                ~TableHit(pdf.pages[k]) /\ ~LineHit(pdf.pages[k])
      /\ parsed.by = "none" =>
            (pdf.readable =>
               \A k \in DOMAIN pdf.pages :
                  /\ ~TableHit(pdf.pages[k])
                  /\ pdf.pages[k].text.kind \notin {"line", "wrapped"})

\* A two-page document whose first page matches only as text and whose second
\* page has the IE07 table row: the text line of page 1 is returned.
C10_Witness ==
    /\ pc = "extracted"
    /\ Len(pdf.pages) = 2
    /\ ~TableHit(pdf.pages[1]) /\ LineHit(pdf.pages[1])
    /\ TableHit(pdf.pages[2])
    /\ parsed.by = "line" /\ parsed.page = 1

(* ------------------- de-duplication of event lists --------------------- *)
\* The dictionary key of lines 453 and 505.  The first component is the
\* Python object held under "Circular Date": a date and a datetime of the same
\* day hash and compare differently, so the type is part of the key.
Key(e) == <<e.CircularDate, e.DateType, e.ProductCode>>

SortKeyLeqSourceDesc(a, b) ==
    \/ a.CircularDate < b.CircularDate
    \/ a.CircularDate = b.CircularDate /\ a.SourcePDF >= b.SourcePDF

\* line 452: the sort key (Circular Date or date.min, Source PDF or "")
SortKeyLeq(a, b) ==
    \/ a.CircularDate < b.CircularDate
    \/ a.CircularDate = b.CircularDate /\ a.SourcePDF <= b.SourcePDF

\* line 452: sorted() is stable
RECURSIVE sorted(_)
sorted(s) ==
    IF s = <<>> THEN <<>>
    ELSE LET minima == {i \in DOMAIN s : \A j \in DOMAIN s : SortKeyLeq(s[i], s[j])}
             i == CHOOSE m \in minima : \A n \in minima : m <= n
         IN <<s[i]>> \o sorted(RemoveAt(s, i))

\* seen[key] = e on a dictionary kept as the sequence of its values in
\* insertion order
DictPut(seen, e) ==
    IF \E i \in DOMAIN seen : Key(seen[i]) = Key(e)
    THEN [i \in DOMAIN seen |-> IF Key(seen[i]) = Key(e) THEN e ELSE seen[i]]
    ELSE Append(seen, e)

\* lines 451-456 of parse_all_pdfs
dedupe_by_source(evs) ==
    LET ordered == sorted(evs)
        seen[i \in 0..Len(ordered)] ==
            IF i = 0 THEN <<>> ELSE DictPut(seen[i - 1], ordered[i])
    IN seen[Len(ordered)]

CombinePutSmaller(seen, e) ==
    IF \A i \in DOMAIN seen : Key(seen[i]) # Key(e) THEN Append(seen, e)
    ELSE IF \E i \in DOMAIN seen : Key(seen[i]) = Key(e) /\ e.SourcePDF < seen[i].SourcePDF
         THEN DictPut(seen, e)
         ELSE seen

\* lines 505-507: keep the event with the greater Source PDF
CombinePut(seen, e) ==
    IF \A i \in DOMAIN seen : Key(seen[i]) # Key(e) THEN Append(seen, e)
    ELSE IF \E i \in DOMAIN seen : Key(seen[i]) = Key(e) /\ e.SourcePDF > seen[i].SourcePDF
         THEN DictPut(seen, e)
         ELSE seen

\* lines 501-508 of main
combine(existing_from_excel, evs) ==
    LET combined == existing_from_excel \o evs
        seen[i \in 0..Len(combined)] ==
            IF i = 0 THEN <<>> ELSE CombinePut(seen[i - 1], combined[i])
    IN seen[Len(combined)]

(* --------------- specification: the two de-duplications ---------------- *)
MaxCandidates == 3
MaxSrc == 2

CandidatePool ==
    { Event(IF dtype = "date" THEN 1 ELSE 2, code, cdate, dtype, "", src) :
        dtype \in {"date", "datetime"}, code \in ProductCodes,
        cdate \in {NoDate, 1, 2}, src \in 1..MaxSrc }

IsParsed(e) == e.DateType # "datetime"
IsLoaded(e) == e.DateType # "date"

InitDedup ==
    /\ Idle
    /\ pc = "input"
    /\ candidates \in SeqsUpTo(CandidatePool, MaxCandidates)
    /\ store = <<>>
    /\ events = <<>> /\ until = 1 /\ daily = <<>>
    /\ pdf = <<>> /\ parsed = <<>>

\* parse_all_pdfs on the events parsed from the PDFs
ParseDedupe ==
    /\ pc = "input"
    /\ \A i \in DOMAIN candidates : IsParsed(candidates[i])
    /\ store' = dedupe_by_source(candidates)
    /\ pc' = "deduped"
    /\ UNCHANGED <<mode, runs, file, backups, prior, pdfs_dir, events, until,
                   daily, latest_link, pdf, parsed, candidates>>

\* main: the events loaded from the sheet followed by the result of
\* parse_all_pdfs
CombineStep ==
    /\ pc = "input"
    /\ \E n \in 0..Len(candidates) :
          LET existing_from_excel == SubSeq(candidates, 1, n)
              evs == SubSeq(candidates, n + 1, Len(candidates))
          IN /\ \A i \in DOMAIN existing_from_excel : IsLoaded(existing_from_excel[i])
             /\ \A i \in DOMAIN evs : IsParsed(evs[i])
             /\ evs = dedupe_by_source(evs)
             /\ store' = combine(existing_from_excel, evs)
    /\ pc' = "combined"
    /\ UNCHANGED <<mode, runs, file, backups, prior, pdfs_dir, events, until,
                   daily, latest_link, pdf, parsed, candidates>>

NextDedup == ParseDedupe \/ CombineStep

SpecDedup == InitDedup /\ [][NextDedup]_vars

InStore(e) == \E k \in DOMAIN store : store[k] = e

WithDate(s, e) == {k \in DOMAIN s : s[k].CircularDate = e.CircularDate}
WithKey(s, e) == {k \in DOMAIN s : Key(s[k]) = Key(e)}

Missing == [kind |-> "missing"]
Unreadable == [kind |-> "corrupt"]
UnknownSchema == [kind |-> "unknown"]
Truncated == [kind |-> "truncated"]
Book(evs, dly, by) == [kind |-> "book", events |-> evs, daily |-> dly, by |-> by]

\* A workbook without an events sheet whose first sheet has date columns:
\* date_cols lists, in column order, the columns whose name contains "date".
Table(date_cols, rows) == [kind |-> "table", date_cols |-> date_cols, rows |-> rows]

\* Columns Date, Description, Product Code, Basic Price, Circular Date,
\* Circular Link: one row per day
DailyTable(rows) == Table(<<"Date", "CircularDate">>, rows)

\* Columns Sl.no., Description, Product Code, Basic Price, Circular Date,
\* Circular Link: one row per circular
LegacyTable(circulars) ==
    Table(<<"CircularDate">>,
          [i \in DOMAIN circulars |->
              [Description |-> circulars[i].Description,
               ProductCode |-> circulars[i].ProductCode,
               BasicPrice |-> circulars[i].BasicPrice,
               CircularDate |-> circulars[i].CircularDate,
               CircularLink |-> circulars[i].CircularLink]])

\* lines 319-343: every row of the first sheet with a value in the first date
\* column becomes an event dated by that column; there is no Source PDF column
first_sheet_events(f) ==
    LET date_col == f.date_cols[1]
        rows == KeepIdx(f.rows, {i \in DOMAIN f.rows : f.rows[i][date_col] # NoDate})
    IN [i \in DOMAIN rows |->
           [Description |-> rows[i].Description,
            ProductCode |-> rows[i].ProductCode,
            BasicPrice |-> rows[i].BasicPrice,
            CircularDate |-> rows[i][date_col],
            DateType |-> "datetime",
            CircularLink |-> rows[i].CircularLink,
            SourcePDF |-> 0]]

\* lines 278-346: from a book, the rows of the events sheet that have a
\* Circular Date, the date read back being a Timestamp; from a table, the rows
\* of the first sheet; otherwise nothing
read_existing_events_from_excel(f) ==
    IF f.kind = "table" /\ f.date_cols # <<>> THEN first_sheet_events(f)
    ELSE IF f.kind # "book" THEN <<>>
    ELSE LET rows == KeepIdx(f.events, {i \in DOMAIN f.events : f.events[i].CircularDate # NoDate})
         IN [i \in DOMAIN rows |-> [rows[i] EXCEPT !.DateType = "datetime"]]

\* line 418: pd.to_datetime on the Circular Date column
to_datetime(evs) ==
    [i \in DOMAIN evs |->
        [evs[i] EXCEPT !.DateType = IF evs[i].CircularDate = NoDate THEN "none" ELSE "datetime"]]

\* line 422: events_df.sort_values("Circular Date"), rows without a date last
events_sheet(evs) ==
    LET df == to_datetime(evs)
        dated == KeepIdx(df, {i \in DOMAIN df : df[i].CircularDate # NoDate})
        nat == KeepIdx(df, {i \in DOMAIN df : df[i].CircularDate = NoDate})
    IN { a \o b : a \in sort_values(dated, "CircularDate"), b \in sort_values(nat, "CircularDate") }

RECURSIVE Reverse(_)
Reverse(s) == IF s = <<>> THEN <<>> ELSE Append(Reverse(Tail(s)), Head(s))

daily_df_sorted_desc(daily_df) == { Reverse(t) : t \in sort_values(daily_df, "Date") }

\* lines 427-430: daily_df.sort_values("Date")
daily_df_sorted(daily_df) == sort_values(daily_df, "Date")

(* ------------------------------ the PDFs ------------------------------- *)
MaxPdfs == 5

\* The circulars the page can link to, by file name.
PdfFile(name) ==
    CASE name = 1 ->
           [name |-> 1, readable |-> TRUE,
            pages |-> << [tables |-> <<Row("other"), RowOf("ie07", 1, "", 1)>>,
                          text |-> Text("none")] >>]
      [] name = 2 ->
           [name |-> 2, readable |-> TRUE,
            pages |-> << [tables |-> <<>>, text |-> RowOf("line", 2, "IE07", 1)] >>]
      [] name = 3 ->
           [name |-> 3, readable |-> TRUE,
            pages |-> << [tables |-> <<RowOf("ie07", 2, "", 3)>>, text |-> Text("none")] >>]
      [] name = 4 ->
           [name |-> 4, readable |-> TRUE,
            pages |-> << [tables |-> <<Row("other")>>, text |-> Text("none")] >>]
      [] name = 5 ->
           [name |-> 5, readable |-> TRUE,
            pages |-> << [tables |-> <<RowOf("ie07", 3, "", 2)>>, text |-> Text("none")] >>]
      [] OTHER ->
           [name |-> name, readable |-> FALSE, pages |-> <<>>]

PdfNames == 1..MaxPdfs

\* lines 434-438: the PDF files of the directory, sorted by name
RECURSIVE load_all_pdfs(_)
load_all_pdfs(dir) ==
    IF dir = {} THEN <<>>
    ELSE LET first == CHOOSE n \in dir : \A m \in dir : n <= m
         IN <<first>> \o load_all_pdfs(dir \ {first})

\* lines 440-456; the link of an event is the template followed by the file
\* name, or empty without a template
parse_all_pdfs(pdfs, circular_link_template) ==
    LET found == KeepIdx(pdfs, {i \in DOMAIN pdfs :
                     extract_ie07_from_pdf(PdfFile(pdfs[i]), circular_link_template).by # "none"})
        evs == [i \in DOMAIN found |->
                   extract_ie07_from_pdf(PdfFile(found[i]), circular_link_template).event]
    IN dedupe_by_source(evs)

(* ------------------------- one run of main() --------------------------- *)
MaxRuns == 2
RunUntils == {MaxDay - 1, MaxDay}

Init ==
    /\ pc = "idle"
    /\ mode = "none"
    /\ runs = 0
    /\ file \in {Missing, Unreadable, UnknownSchema}
    /\ backups = {}
    /\ prior = Missing
    /\ pdfs_dir = {}
    /\ latest_link = NoLink
    /\ events = <<>> /\ until = MaxDay /\ daily = <<>>
    /\ pdf = <<>> /\ parsed = <<>> /\ candidates = <<>> /\ store = <<>>

\* lines 510-515: the daily sheet is built and save_to_excel is entered
BuildAndEnterSave(m, evs, dir, link) ==
    /\ pc \in {"idle", "done", "failed"}
    /\ runs < MaxRuns
    /\ runs' = runs + 1
    /\ mode' = m
    /\ events' = evs
    /\ pdfs_dir' = dir
    /\ latest_link' = link
    /\ prior' = file
    /\ \E until_date \in RunUntils :
          /\ until' = until_date
          /\ daily' \in build_daily_sheet(evs, until_date)
    /\ pc' = "save"
    /\ UNCHANGED <<file, backups, pdf, parsed, candidates, store>>

\* lines 473-477 and 510-515
RunRepair ==
    BuildAndEnterSave("repair", read_existing_events_from_excel(file), pdfs_dir, NoLink)

\* lines 478-483 and 510-515
RunBackfill ==
    BuildAndEnterSave("backfill", parse_all_pdfs(load_all_pdfs(pdfs_dir), ""), pdfs_dir, NoLink)

\* lines 484-515: the page gives no link, or the link of a circular that is
\* already in the directory, is downloaded now, or fails to download
RunNormal ==
    \E link \in {NoLink} \cup PdfNames :
      \E dir \in (IF link = NoLink THEN {pdfs_dir} ELSE {pdfs_dir, pdfs_dir \cup {link}}) :
         /\ link \in pdfs_dir => dir = pdfs_dir
         /\ BuildAndEnterSave("normal",
               combine(read_existing_events_from_excel(file),
                       parse_all_pdfs(load_all_pdfs(dir),
                                      IF link = NoLink THEN "" ELSE "page/url")),
               dir, link)

SaveBackupSkipped ==
    /\ pc = "save"
    /\ pc' = "open"
    /\ UNCHANGED <<mode, runs, file, backups, prior, pdfs_dir, events, until, daily,
                   latest_link, pdf, parsed, candidates, store>>

\* lines 400-405: the existing file is copied to a backup
SaveBackup ==
    /\ pc = "save"
    /\ backups' = IF file.kind # "missing" THEN backups \cup {file} ELSE backups
    /\ pc' = "open"
    /\ UNCHANGED <<mode, runs, file, prior, pdfs_dir, events, until, daily,
                   latest_link, pdf, parsed, candidates, store>>

\* line 420: ExcelWriter opens the path for writing, which truncates it
SaveOpen ==
    /\ pc = "open"
    /\ file' = Truncated
    /\ pc' = "writing"
    /\ UNCHANGED <<mode, runs, backups, prior, pdfs_dir, events, until, daily,
                   latest_link, pdf, parsed, candidates, store>>

\* lines 421-432: both sheets are written and the workbook is closed
SaveWrite ==
    /\ pc = "writing"
    /\ \E evs \in events_sheet(events), dly \in daily_df_sorted(daily) :
          file' = Book(evs, dly,
                       [mode |-> mode, pdfs |-> pdfs_dir, linked |-> latest_link # NoLink])
    /\ pc' = "done"
    /\ UNCHANGED <<mode, runs, backups, prior, pdfs_dir, events, until, daily,
                   latest_link, pdf, parsed, candidates, store>>

\* An exception in save_to_excel (copy, open or write) ends the run
SaveFail ==
    /\ pc \in {"save", "open", "writing"}
    /\ pc' = "failed"
    /\ UNCHANGED <<mode, runs, file, backups, prior, pdfs_dir, events, until, daily,
                   latest_link, pdf, parsed, candidates, store>>

Next ==
    \/ RunRepair
    \/ RunBackfill
    \/ RunNormal
    \/ SaveBackup
    \/ SaveOpen
    \/ SaveWrite
    \/ SaveFail

Spec == Init /\ [][Next]_vars

InSave == pc \in {"save", "open", "writing", "done", "failed"}

\* C8: write safety. From the entry of save_to_excel to the end of the run,
\* if a spreadsheet existed when the run started, then either the file still
\* holds that data or a backup holds a complete copy of it.
C8_PriorDataKept ==
    (InSave /\ prior.kind # "missing") => (file = prior \/ prior \in backups)

\* A write that failed after the path was opened: the file is truncated and
\* the book of the previous run is in a backup.
C8_Witness ==
    /\ pc = "failed"
    /\ file = Truncated
    /\ prior.kind = "book"
    /\ prior.events # <<>>
    /\ prior \in backups

\* The latest circular was downloaded (or was already there) and no heuristic
\* finds IE07 in it.
LatestExtractionFailed ==
    /\ mode = "normal"
    /\ latest_link # NoLink
    /\ latest_link \in pdfs_dir
    /\ extract_ie07_from_pdf(PdfFile(latest_link), "page/url").by = "none"

OneEventPerDate(evs) ==
    \A i, j \in Dated(evs) : i # j => evs[i].CircularDate # evs[j].CircularDate

\* C3: event-store uniqueness. The list given to save_to_excel, and the events
\* sheet it writes, hold at most one event per Circular Date.
C3_OneEventPerDate ==
    /\ InSave => OneEventPerDate(events)
    /\ (pc = "done" /\ file.kind = "book") => OneEventPerDate(file.events)

Count(s, e) == Cardinality({i \in DOMAIN s : s[i] = e})
SameBag(a, b) ==
    \A e \in {a[i] : i \in DOMAIN a} \cup {b[i] : i \in DOMAIN b} : Count(a, e) = Count(b, e)

\* The merge of one event into a store, as the combine step of main does it.
upsert(S, e) == combine(S, <<e>>)

\* C5: upsert idempotence. Merging an event twice gives the same store as
\* merging it once, and a normal run over the events a normal run persisted
\* and over the same PDFs writes the same events again.
C5_RerunKeepsStore ==
    /\ InSave => \A i \in DOMAIN events :
                    upsert(upsert(events, events[i]), events[i]) = upsert(events, events[i])
    /\ (/\ pc = "done" /\ mode = "normal" /\ prior.kind = "book"
        /\ prior.by = [mode |-> "normal", pdfs |-> pdfs_dir, linked |-> latest_link # NoLink])
       => SameBag(file.events, prior.events)

\* C6: repair no-op. A repair run that finds no usable event writes nothing:
\* when it ends, the data file is as it was when the run started.
C6_RepairNoOp ==
    (mode = "repair" /\ events = <<>> /\ pc = "done") => file = prior

\* C7: extraction failure is fatal in normal mode. A normal run whose latest
\* circular yields no IE07 row never completes the write of the spreadsheet.
C7_AbortOnExtractionFailure ==
    LatestExtractionFailed => pc # "done"

Ascending(s, by) == \A i, j \in DOMAIN s : i < j => s[i][by] <= s[j][by]
StrictlyAscending(s, by) == \A i, j \in DOMAIN s : i < j => s[i][by] < s[j][by]
StrictlyDescending(s, by) == \A i, j \in DOMAIN s : i < j => s[i][by] > s[j][by]
DatedRows(s) == KeepIdx(s, {i \in DOMAIN s : s[i].CircularDate # NoDate})

\* C9 as stated: the daily sheet is written in descending order of Date and
\* the events sheet in ascending order of Circular Date.
C9_DailyDescending ==
    (pc = "done" /\ file.kind = "book") =>
        /\ StrictlyDescending(file.daily, "Date")
        /\ Ascending(DatedRows(file.events), "CircularDate")

\* C9 amended: the daily sheet is written in ascending order of Date (oldest
\* day first) and the events sheet in ascending order of Circular Date.
C9_BothAscending ==
    (pc = "done" /\ file.kind = "book") =>
        /\ StrictlyAscending(file.daily, "Date")
        /\ Ascending(DatedRows(file.events), "CircularDate")

\* A written book with several days and events of two Circular Dates.
C9_Witness ==
    /\ pc = "done"
    /\ file.kind = "book"
    /\ Len(file.daily) >= 3
    /\ Cardinality({file.events[i].CircularDate : i \in DOMAIN file.events}) >= 2

\* C11: no priceless event from a live fetch. Every event that a normal run
\* takes from a parsed PDF into the list it persists has a Basic Price.
C11_NoPricelessEvent ==
    (mode = "normal" /\ InSave) =>
        \A i \in DOMAIN events :
            IsParsed(events[i]) => events[i].BasicPrice # NoPrice

(* -------- specification: repair from a first-sheet table --------------- *)
\* The circulars behind a table: at most one per day.
CircularPool == { Event(v, "IE07", cdate, "date", "", v) : v \in 1..2, cdate \in Days }

Circulars ==
    { c \in SeqsUpTo(CircularPool, MaxEvents) :
        \A i, j \in DOMAIN c : i # j => c[i].CircularDate # c[j].CircularDate }

\* The data file is the daily table built from the circulars, or the legacy
\* table of the circulars themselves.
InitLoad ==
    /\ pc = "input"
    /\ mode = "none" /\ runs = 0 /\ backups = {} /\ prior = Missing
    /\ pdfs_dir = {} /\ latest_link = NoLink
    /\ candidates \in Circulars
    /\ until \in Untils
    /\ file \in {DailyTable(d) : d \in build_daily_sheet(candidates, until)}
                \cup {LegacyTable(candidates)}
    /\ events = <<>> /\ daily = <<>>
    /\ pdf = <<>> /\ parsed = <<>> /\ store = <<>>

\* main in repair mode, lines 473-477 and 510-514: the events are loaded from
\* the data file and the daily sheet is built from them
RepairLoad ==
    /\ pc = "input"
    /\ mode' = "repair"
    /\ events' = read_existing_events_from_excel(file)
    /\ daily' \in build_daily_sheet(read_existing_events_from_excel(file), until)
    /\ pc' = "rebuilt"
    /\ UNCHANGED <<runs, file, backups, prior, pdfs_dir, until, latest_link,
                   pdf, parsed, candidates, store>>

NextLoad == RepairLoad

SpecLoad == InitLoad /\ [][NextLoad]_vars

IsDailyTable(f) == f.kind = "table" /\ f.date_cols = <<"Date", "CircularDate">>

\* C12: loading a daily-schema table gives one event per unique Circular Date
\* of the table, each with the Circular Date and the fields of a row of that
\* Circular Date, and the daily sheet rebuilt from the loaded events is the
\* table itself, which was built from the circulars.
C12_DailyTableRoundTrip ==
    (pc = "rebuilt" /\ IsDailyTable(file)) =>
        /\ Len(events) = Cardinality({file.rows[i].CircularDate : i \in DOMAIN file.rows})
        /\ \A i \in DOMAIN events :
              \E k \in DOMAIN file.rows :
                 /\ events[i].CircularDate = file.rows[k].CircularDate
                 /\ SameFields(file.rows[k], events[i])
        /\ daily = file.rows
====
